---- MODULE Spec2Model ----
(***************************************************************************)
(* Model of os/stat_windows.go: Stat, Lstat, stat, statHandle and          *)
(* File.Stat, run against a mock Windows API layer that records every      *)
(* call and keeps a handle table.                                          *)
(*                                                                         *)
(* Strings are sequences of one-character strings, so that len(), the      *)
(* UTF-16 conversion, fixLongPath and basename are computed, not assumed.  *)
(***************************************************************************)
EXTENDS Integers, Sequences, FiniteSets, TLC

(***************************************************************************)
(* Bounds of the model.                                                    *)
(***************************************************************************)
\* Number of slots of the mock OS handle table.
MaxHandles == 5

(***************************************************************************)
(* Program constants (package syscall), with their Windows values.         *)
(***************************************************************************)
FILE_FLAG_BACKUP_SEMANTICS == 33554432
FILE_FLAG_OPEN_REPARSE_POINT == 2097152
FILE_ATTRIBUTE_REPARSE_POINT == 1024
FILE_ATTRIBUTE_ARCHIVE == 32
FILE_ATTRIBUTE_DIRECTORY == 16
FILE_TYPE_DISK == 1
FILE_TYPE_CHAR == 2
FILE_TYPE_PIPE == 3
\* Path length from which fixLongPath rewrites a path (248 in package os,
\* scaled down with the path names of the model).
LongPathLimit == 5

\* x & bit # 0, for bit a power of two.
HasBit(x, bit) == (x \div bit) % 2 = 1

\* The threads that may run a call.
Procs == {1, 2}

(***************************************************************************)
(* Values.                                                                 *)
(***************************************************************************)
NoHandle == 0
InvalidHandle == 0 - 1
Handles == 1..MaxHandles

\* The nil error and the nil FileInfo.
NilErr == [nil |-> TRUE]
NilInfo == [nil |-> TRUE]

\* &PathError{Op: op, Path: path, Err: err}
PathError(op, path, err) == [Op |-> op, Path |-> path, Err |-> err]

\* The package-level error ErrInvalid.
ErrInvalid == [errorString |-> "invalid argument"]

\* The zero value of fileStat.
ZeroFileStat ==
    [name |-> <<>>, FileAttributes |-> 0, CreationTime |-> 0,
     LastAccessTime |-> 0, LastWriteTime |-> 0, FileSizeHigh |-> 0,
     FileSizeLow |-> 0, Reserved0 |-> 0, filetype |-> 0,
     path |-> <<>>, vol |-> 0, idxhi |-> 0, idxlo |-> 0]

(***************************************************************************)
(* Path names given by callers.                                            *)
(***************************************************************************)
EmptyName == <<>>
FileName == <<"\\", "f">>
LinkName == <<"\\", "l">>
PipeName == <<"\\", "p">>
CharName == <<"c">>
LongName == <<"\\", "d", "d", "\\", "g">>
BadName == <<"f", "NUL">>
LongBadName == <<"\\", "d", "d", "\\", "NUL">>
DirName == <<"\\", "d", "d">>

Names == {EmptyName, FileName, LinkName, PipeName, CharName, LongName,
          BadName, LongBadName}

(***************************************************************************)
(* String helpers of packages os and syscall.                              *)
(***************************************************************************)
IsSep(c) == c = "\\" \/ c = "/"

\* fixLongPath: paths shorter than the limit are returned as they are;
\* longer ones get the extended-length prefix \\?\ .
fixLongPath(path) ==
    IF Len(path) < LongPathLimit THEN path
    ELSE <<"\\", "\\", "?", "\\">> \o path

\* syscall.UTF16PtrFromString: EINVAL when the string holds a NUL,
\* else the string followed by a terminating NUL.
UTF16PtrFromString(s) ==
    IF \E i \in 1..Len(s) : s[i] = "NUL"
    THEN [p |-> <<>>, err |-> "EINVAL"]
    ELSE [p |-> Append(s, "NUL"), err |-> "nil"]

\* Index of the last separator of s, 0 if there is none.
LastSep(s) ==
    IF \E i \in 1..Len(s) : IsSep(s[i])
    THEN CHOOSE i \in 1..Len(s) :
            IsSep(s[i]) /\ \A j \in (i + 1)..Len(s) : ~IsSep(s[j])
    ELSE 0

\* basename: the part of name after its last separator.
basename(nm) == SubSeq(nm, LastSep(nm) + 1, Len(nm))

(***************************************************************************)
(* The mock OS: the objects of the file system.                            *)
(***************************************************************************)
Objects == {"F", "L", "P", "C", "G", "D"}

ObjData ==
    [F |-> [kind |-> FILE_TYPE_DISK, attrs |-> FILE_ATTRIBUTE_ARCHIVE,
            ctime |-> 11, atime |-> 12, wtime |-> 13,
            sizeHigh |-> 1, sizeLow |-> 100,
            vol |-> 7, idxhi |-> 1, idxlo |-> 1, tag |-> 0, target |-> "F"],
     L |-> [kind |-> FILE_TYPE_DISK,
            attrs |-> FILE_ATTRIBUTE_ARCHIVE + FILE_ATTRIBUTE_REPARSE_POINT,
            ctime |-> 21, atime |-> 22, wtime |-> 23,
            sizeHigh |-> 0, sizeLow |-> 0,
            vol |-> 7, idxhi |-> 1, idxlo |-> 2, tag |-> 5, target |-> "F"],
     P |-> [kind |-> FILE_TYPE_PIPE, attrs |-> FILE_ATTRIBUTE_ARCHIVE,
            ctime |-> 31, atime |-> 32, wtime |-> 33,
            sizeHigh |-> 0, sizeLow |-> 30,
            vol |-> 8, idxhi |-> 1, idxlo |-> 3, tag |-> 0, target |-> "P"],
     C |-> [kind |-> FILE_TYPE_CHAR, attrs |-> FILE_ATTRIBUTE_ARCHIVE,
            ctime |-> 41, atime |-> 42, wtime |-> 43,
            sizeHigh |-> 0, sizeLow |-> 40,
            vol |-> 8, idxhi |-> 1, idxlo |-> 4, tag |-> 0, target |-> "C"],
     G |-> [kind |-> FILE_TYPE_DISK, attrs |-> FILE_ATTRIBUTE_ARCHIVE,
            ctime |-> 51, atime |-> 52, wtime |-> 53,
            sizeHigh |-> 2, sizeLow |-> 200,
            vol |-> 7, idxhi |-> 1, idxlo |-> 5, tag |-> 0, target |-> "G"],
     D |-> [kind |-> FILE_TYPE_DISK, attrs |-> FILE_ATTRIBUTE_DIRECTORY,
            ctime |-> 61, atime |-> 62, wtime |-> 63,
            sizeHigh |-> 0, sizeLow |-> 0,
            vol |-> 7, idxhi |-> 1, idxlo |-> 6, tag |-> 0, target |-> "D"]]

\* The OS name space: NUL-terminated names as the API receives them.
NameSpace ==
    [n \in {Append(FileName, "NUL"), Append(LinkName, "NUL"),
            Append(PipeName, "NUL"), Append(CharName, "NUL"),
            Append(DirName, "NUL"),
            <<"\\", "\\", "?", "\\">> \o Append(LongName, "NUL")} |->
        CASE n = Append(FileName, "NUL") -> "F"
          [] n = Append(LinkName, "NUL") -> "L"
          [] n = Append(PipeName, "NUL") -> "P"
          [] n = Append(CharName, "NUL") -> "C"
          [] n = Append(DirName, "NUL") -> "D"
          [] OTHER -> "G"]

Exists(namep) == namep \in DOMAIN NameSpace

\* The answers the OS gives in a run: one outcome per API.  "OK" lets the
\* call act on the file system; any other value is the error it fails with.
Plans ==
    [gfa : {"OK", "ERROR_SHARING_VIOLATION", "ERROR_ACCESS_DENIED"},
     fff : {"OK", "ERROR_ACCESS_DENIED"},
     cf : {"OK", "ERROR_ACCESS_DENIED"},
     gft : {"OK", "ERROR_INVALID_HANDLE"},
     gfi : {"OK", "ERROR_INVALID_FUNCTION"},
     save : {"OK", "ERROR_BAD_PATHNAME"}]

(***************************************************************************)
(* The mock OS: the handle table and the API calls.                        *)
(***************************************************************************)
FreeSlot == [type |-> "free", obj |-> ""]
FindSlot(o) == [type |-> "find", obj |-> o]
FileSlot(o) == [type |-> "file", obj |-> o]

\* The handle the OS gives to the next successful open: the lowest free one.
AllocHandle(tbl) ==
    IF \E x \in Handles : tbl[x] = FreeSlot
    THEN CHOOSE x \in Handles :
            tbl[x] = FreeSlot /\ \A y \in Handles : y < x => tbl[y] # FreeSlot
    ELSE InvalidHandle

ZeroAttributeData ==
    [FileAttributes |-> 0, CreationTime |-> 0, LastAccessTime |-> 0,
     LastWriteTime |-> 0, FileSizeHigh |-> 0, FileSizeLow |-> 0]

ZeroFindData ==
    [FileAttributes |-> 0, CreationTime |-> 0, LastAccessTime |-> 0,
     LastWriteTime |-> 0, FileSizeHigh |-> 0, FileSizeLow |-> 0,
     Reserved0 |-> 0, FileName |-> <<>>]

\* GetFileAttributesEx(namep, GetFileExInfoStandard, &fa): the attributes of
\* the object the name denotes; a reparse point is not followed.
OS_GetFileAttributesEx(pl, np) ==
    IF pl.gfa # "OK" THEN [err |-> pl.gfa, fa |-> ZeroAttributeData]
    ELSE IF ~Exists(np)
    THEN [err |-> "ERROR_FILE_NOT_FOUND", fa |-> ZeroAttributeData]
    ELSE LET o == ObjData[NameSpace[np]] IN
         [err |-> "nil",
          fa |-> [FileAttributes |-> o.attrs, CreationTime |-> o.ctime,
                  LastAccessTime |-> o.atime, LastWriteTime |-> o.wtime,
                  FileSizeHigh |-> o.sizeHigh, FileSizeLow |-> o.sizeLow]]

\* FindFirstFile(namep, &fd): a search handle and the directory entry of
\* the name; a reparse point is not followed.
OS_FindFirstFile(pl, tbl, np) ==
    IF pl.fff # "OK"
    THEN [err |-> pl.fff, h |-> InvalidHandle, fd |-> ZeroFindData, tbl |-> tbl]
    ELSE IF ~Exists(np)
    THEN [err |-> "ERROR_FILE_NOT_FOUND", h |-> InvalidHandle,
          fd |-> ZeroFindData, tbl |-> tbl]
    ELSE IF AllocHandle(tbl) = InvalidHandle
    THEN [err |-> "ERROR_TOO_MANY_OPEN_FILES", h |-> InvalidHandle,
          fd |-> ZeroFindData, tbl |-> tbl]
    ELSE LET o == ObjData[NameSpace[np]]
             x == AllocHandle(tbl) IN
         [err |-> "nil", h |-> x,
          fd |-> [FileAttributes |-> o.attrs, CreationTime |-> o.ctime,
                  LastAccessTime |-> o.atime, LastWriteTime |-> o.wtime,
                  FileSizeHigh |-> o.sizeHigh, FileSizeLow |-> o.sizeLow,
                  Reserved0 |-> o.tag,
                  FileName |-> basename(SubSeq(np, 1, Len(np) - 1))],
          tbl |-> [tbl EXCEPT ![x] = FindSlot(NameSpace[np])]]

\* CreateFile(namep, GENERIC_READ, share, nil, OPEN_EXISTING, attrs, 0): a
\* handle on the object of the name, or on the target of a reparse point
\* unless FILE_FLAG_OPEN_REPARSE_POINT is given.
OS_CreateFile(pl, tbl, np, attrs) ==
    IF pl.cf # "OK"
    THEN [err |-> pl.cf, h |-> InvalidHandle, tbl |-> tbl]
    ELSE IF ~Exists(np)
    THEN [err |-> "ERROR_FILE_NOT_FOUND", h |-> InvalidHandle, tbl |-> tbl]
    ELSE IF AllocHandle(tbl) = InvalidHandle
    THEN [err |-> "ERROR_TOO_MANY_OPEN_FILES", h |-> InvalidHandle, tbl |-> tbl]
    ELSE LET named == NameSpace[np]
             o == IF HasBit(attrs, FILE_FLAG_OPEN_REPARSE_POINT)
                  THEN named ELSE ObjData[named].target
             x == AllocHandle(tbl) IN
         [err |-> "nil", h |-> x, tbl |-> [tbl EXCEPT ![x] = FileSlot(o)]]

\* FindClose(h) and CloseHandle(h): free the slot of an open handle of the
\* right type; on anything else they fail and change nothing.
OS_FindClose(tbl, x) ==
    IF x \in Handles /\ tbl[x].type = "find"
    THEN [err |-> "nil", tbl |-> [tbl EXCEPT ![x] = FreeSlot]]
    ELSE [err |-> "ERROR_INVALID_HANDLE", tbl |-> tbl]

OS_CloseHandle(tbl, x) ==
    IF x \in Handles /\ tbl[x].type = "file"
    THEN [err |-> "nil", tbl |-> [tbl EXCEPT ![x] = FreeSlot]]
    ELSE [err |-> "ERROR_INVALID_HANDLE", tbl |-> tbl]

\* GetFileType(h): the type of the object behind an open handle.
OS_GetFileType(pl, tbl, x) ==
    IF pl.gft # "OK" THEN [err |-> pl.gft, n |-> 0]
    ELSE IF ~(x \in Handles /\ tbl[x].type = "file")
    THEN [err |-> "ERROR_INVALID_HANDLE", n |-> 0]
    ELSE [err |-> "nil", n |-> ObjData[tbl[x].obj].kind]

\* GetFileInformationByHandle(h, &d): attributes, times, size and identity
\* of the object behind an open handle.
OS_GetFileInformationByHandle(pl, tbl, x) ==
    IF pl.gfi # "OK" THEN [err |-> pl.gfi, obj |-> ""]
    ELSE IF ~(x \in Handles /\ tbl[x].type = "file")
    THEN [err |-> "ERROR_INVALID_HANDLE", obj |-> ""]
    ELSE [err |-> "nil", obj |-> tbl[x].obj]

\* One entry of the record the mock keeps of the API calls of a call.
Call(api, arg, attrs, x, err) ==
    [api |-> api, arg |-> arg, attrs |-> attrs, h |-> x, err |-> err]

(***************************************************************************)
(* The constructors of fileStat (package os, types_windows.go).            *)
(***************************************************************************)
\* The fileStat literal of stat's fast path.
newFileStatFromAttributeData(fa) ==
    [ZeroFileStat EXCEPT
        !.FileAttributes = fa.FileAttributes,
        !.CreationTime = fa.CreationTime,
        !.LastAccessTime = fa.LastAccessTime,
        !.LastWriteTime = fa.LastWriteTime,
        !.FileSizeHigh = fa.FileSizeHigh,
        !.FileSizeLow = fa.FileSizeLow]

\* newFileStatFromWin32finddata: a field copy of the enumeration entry.
newFileStatFromWin32finddata(d) ==
    [ZeroFileStat EXCEPT
        !.FileAttributes = d.FileAttributes,
        !.CreationTime = d.CreationTime,
        !.LastAccessTime = d.LastAccessTime,
        !.LastWriteTime = d.LastWriteTime,
        !.FileSizeHigh = d.FileSizeHigh,
        !.FileSizeLow = d.FileSizeLow,
        !.Reserved0 = d.Reserved0]

\* newFileStatFromGetFileInformationByHandle(path, h): every field from the
\* handle, identity included; a failure of the query is returned as it is.
newFileStatFromGetFileInformationByHandle(pl, tbl, path, x) ==
    LET r == OS_GetFileInformationByHandle(pl, tbl, x) IN
    IF r.err # "nil"
    THEN [fs |-> NilInfo,
          err |-> PathError("GetFileInformationByHandle", path, r.err)]
    ELSE LET o == ObjData[r.obj] IN
         [fs |-> [ZeroFileStat EXCEPT
                    !.name = basename(path),
                    !.FileAttributes = o.attrs,
                    !.CreationTime = o.ctime,
                    !.LastAccessTime = o.atime,
                    !.LastWriteTime = o.wtime,
                    !.FileSizeHigh = o.sizeHigh,
                    !.FileSizeLow = o.sizeLow,
                    !.Reserved0 = o.tag,
                    !.vol = o.vol, !.idxhi = o.idxhi, !.idxlo = o.idxlo],
          err |-> NilErr]

\* fs.saveInfoFromPath(path): the enrichment of an attribute-only record
\* with what identifies the file named by path; it may fail.
saveInfoFromPath(pl, fs0, path) ==
    IF pl.save # "OK"
    THEN [fs |-> fs0, err |-> PathError("saveInfoFromPath", path, pl.save)]
    ELSE [fs |-> [fs0 EXCEPT !.path = path, !.name = basename(path)],
          err |-> NilErr]

(***************************************************************************)
(* The File values File.Stat is called on.                                 *)
(***************************************************************************)
\* Handles that are open before any call: those of RegFile and PipeFile,
\* and the search handle of DirFile.
RegFileHandle == 1
PipeFileHandle == 2
DirFileHandle == 3

NilFile == [nil |-> TRUE, isdir |-> FALSE, name |-> <<>>,
            dirpath |-> <<>>, Sysfd |-> InvalidHandle]
RegFile == [nil |-> FALSE, isdir |-> FALSE, name |-> FileName,
            dirpath |-> <<>>, Sysfd |-> RegFileHandle]
PipeFile == [nil |-> FALSE, isdir |-> FALSE, name |-> PipeName,
             dirpath |-> <<>>, Sysfd |-> PipeFileHandle]
DirFile == [nil |-> FALSE, isdir |-> TRUE, name |-> DirName,
            dirpath |-> DirName, Sysfd |-> DirFileHandle]
Files == {NilFile, RegFile, PipeFile, DirFile}

InitHandles ==
    [x \in Handles |->
        CASE x = RegFileHandle -> FileSlot("F")
          [] x = PipeFileHandle -> FileSlot("P")
          [] x = DirFileHandle -> FindSlot("D")
          [] OTHER -> FreeSlot]

(***************************************************************************)
(* State.                                                                  *)
(***************************************************************************)
VARIABLES
    plan,            \* the answers of the OS in this run
    handles,         \* the OS handle table
    active,          \* the threads that make calls
    pc,              \* per thread: where its call stands
    entry,           \* per thread: the exported function it called
    file,            \* per thread: the receiver of File.Stat
    funcname,        \* per thread: stat's parameter funcname
    name,            \* per thread: the parameter name of stat / statHandle
    createFileAttrs, \* per thread: stat's parameter createFileAttrs
    namep,           \* per thread: stat's local namep
    fd,              \* per thread: stat's local fd (Win32finddata)
    sh,              \* per thread: stat's local sh (search handle)
    h,               \* per thread: the handle statHandle works on
    defers,          \* per thread: handles with a deferred CloseHandle
    fs,              \* per thread: the local fs (the record being built)
    ft,              \* per thread: statHandle's local ft
    ret,             \* per thread: the values returned by the call
    log,             \* per thread: the API calls of the call, in order
    prev             \* per thread: the call it finished before this one

vars == <<plan, handles, active, pc, entry, file, funcname, name,
          createFileAttrs, namep, fd, sh, h, defers, fs, ft, ret, log, prev>>

NoCall == [entry |-> "", name |-> <<>>, ret |-> [info |-> NilInfo, err |-> NilErr],
           log |-> <<>>]

InitCalls ==
    /\ handles = InitHandles
    /\ pc = [p \in Procs |-> "idle"]
    /\ entry = [p \in Procs |-> ""]
    /\ file = [p \in Procs |-> NilFile]
    /\ funcname = [p \in Procs |-> ""]
    /\ name = [p \in Procs |-> <<>>]
    /\ createFileAttrs = [p \in Procs |-> 0]
    /\ namep = [p \in Procs |-> <<>>]
    /\ fd = [p \in Procs |-> ZeroFindData]
    /\ sh = [p \in Procs |-> NoHandle]
    /\ h = [p \in Procs |-> NoHandle]
    /\ defers = [p \in Procs |-> <<>>]
    /\ fs = [p \in Procs |-> ZeroFileStat]
    /\ ft = [p \in Procs |-> 0]
    /\ ret = [p \in Procs |-> [info |-> NilInfo, err |-> NilErr]]
    /\ log = [p \in Procs |-> <<>>]
    /\ prev = [p \in Procs |-> NoCall]

\* One thread calls; the OS may answer each API in any way.
Init ==
    /\ plan \in Plans
    /\ active = {1}
    /\ InitCalls

(***************************************************************************)
(* Helpers of the actions.                                                 *)
(***************************************************************************)
Return(p, info, err) ==
    /\ ret' = [ret EXCEPT ![p] = [info |-> info, err |-> err]]
    /\ pc' = [pc EXCEPT ![p] = "done"]

Logged(p, c) == log' = [log EXCEPT ![p] = Append(@, c)]

(***************************************************************************)
(* stat, lines 27-34: the parameters, the empty name and the conversion of *)
(* the name for the API.                                                   *)
(***************************************************************************)
\* A stat without the test of line 28.
IsEmptyName_Never(nm) == FALSE

\* Line 28: len(name) == 0.
IsEmptyName(nm) == Len(nm) = 0

\* A stat that reports the converted path in the error of line 33.
EncodingError_FixedPath(fn, nm, err) == PathError(fn, fixLongPath(nm), err)

\* Line 33: the error of a name that cannot be converted.
EncodingError(fn, nm, err) == PathError(fn, nm, err)

stat(p, fn, nm, attrs) ==
    /\ funcname' = [funcname EXCEPT ![p] = fn]
    /\ name' = [name EXCEPT ![p] = nm]
    /\ createFileAttrs' = [createFileAttrs EXCEPT ![p] = attrs]
    /\ log' = [log EXCEPT ![p] = <<>>]
    /\ fd' = [fd EXCEPT ![p] = ZeroFindData]
    /\ sh' = [sh EXCEPT ![p] = NoHandle]
    /\ h' = [h EXCEPT ![p] = NoHandle]
    /\ defers' = [defers EXCEPT ![p] = <<>>]
    /\ fs' = [fs EXCEPT ![p] = ZeroFileStat]
    /\ ft' = [ft EXCEPT ![p] = 0]
    /\ IF IsEmptyName(nm)
       THEN /\ Return(p, NilInfo, PathError(fn, nm, "ERROR_PATH_NOT_FOUND"))
            /\ namep' = [namep EXCEPT ![p] = <<>>]
       ELSE LET r == UTF16PtrFromString(fixLongPath(nm)) IN
            IF r.err # "nil"
            THEN /\ Return(p, NilInfo, EncodingError(fn, nm, r.err))
                 /\ namep' = [namep EXCEPT ![p] = <<>>]
            ELSE /\ namep' = [namep EXCEPT ![p] = r.p]
                 /\ pc' = [pc EXCEPT ![p] = "GetFileAttributesEx"]
                 /\ ret' = [ret EXCEPT ![p] = [info |-> NilInfo, err |-> NilErr]]
    /\ UNCHANGED <<plan, handles, active, prev>>

\* An lstatNolog without line 112.
LstatAttrs_NoReparseFlag == FILE_FLAG_BACKUP_SEMANTICS

\* The createFileAttrs of statNolog (line 104) and lstatNolog (109-112).
StatAttrs == FILE_FLAG_BACKUP_SEMANTICS
LstatAttrs == FILE_FLAG_BACKUP_SEMANTICS + FILE_FLAG_OPEN_REPARSE_POINT

\* statNolog, lines 103-105.
statNolog(p, nm) ==
    /\ p \in active /\ pc[p] = "idle"
    /\ entry' = [entry EXCEPT ![p] = "Stat"]
    /\ UNCHANGED file
    /\ stat(p, "Stat", nm, StatAttrs)

\* lstatNolog, lines 108-114.
lstatNolog(p, nm) ==
    /\ p \in active /\ pc[p] = "idle"
    /\ entry' = [entry EXCEPT ![p] = "Lstat"]
    /\ UNCHANGED file
    /\ stat(p, "Lstat", nm, LstatAttrs)

(***************************************************************************)
(* stat, lines 36-57: the fast query and the choice of what follows.       *)
(***************************************************************************)
\* A stat whose fast path does not look at the reparse-point bit.
NotASymlink_NoBitTest(err, fa) == err = "nil"

\* Line 40: the fast query answers the call.
NotASymlink(err, fa) ==
    err = "nil" /\ ~HasBit(fa.FileAttributes, FILE_ATTRIBUTE_REPARSE_POINT)

\* A stat that never takes the FindFirstFile fallback.
UseFindFirstFile_Never(err) == FALSE

\* A stat that takes the FindFirstFile fallback on every error.
UseFindFirstFile_AnyError(err) == err # "nil"

\* Line 57: the error that sends the call to FindFirstFile.
UseFindFirstFile(err) == err = "ERROR_SHARING_VIOLATION"

statGetFileAttributesEx(p) ==
    /\ pc[p] = "GetFileAttributesEx"
    /\ LET r == OS_GetFileAttributesEx(plan, namep[p]) IN
       /\ Logged(p, Call("GetFileAttributesEx", namep[p], 0, NoHandle, r.err))
       /\ IF NotASymlink(r.err, r.fa)
          THEN /\ fs' = [fs EXCEPT ![p] = newFileStatFromAttributeData(r.fa)]
               /\ pc' = [pc EXCEPT ![p] = "saveInfoFromPath"]
          ELSE IF UseFindFirstFile(r.err)
          THEN /\ pc' = [pc EXCEPT ![p] = "FindFirstFile"]
               /\ UNCHANGED fs
          ELSE /\ pc' = [pc EXCEPT ![p] = "CreateFile"]
               /\ UNCHANGED fs
    /\ UNCHANGED <<plan, handles, active, entry, file, funcname, name,
                   createFileAttrs, namep, fd, sh, h, defers, ft, ret, prev>>

\* A stat that drops the error of the enrichment and returns the record.
statSaveInfoFromPath_ErrorDropped(p) ==
    /\ pc[p] = "saveInfoFromPath"
    /\ LET r == saveInfoFromPath(plan, fs[p], name[p]) IN
       /\ fs' = [fs EXCEPT ![p] = r.fs]
       /\ Logged(p, Call("saveInfoFromPath", name[p], 0, NoHandle,
                         IF r.err = NilErr THEN "nil" ELSE r.err.Err))
       /\ Return(p, r.fs, NilErr)
    /\ UNCHANGED <<plan, handles, active, entry, file, funcname, name,
                   createFileAttrs, namep, fd, sh, h, defers, ft, prev>>

\* stat, lines 50-53 and 65-68: the enrichment, then the return.
statSaveInfoFromPath(p) ==
    /\ pc[p] = "saveInfoFromPath"
    /\ LET r == saveInfoFromPath(plan, fs[p], name[p]) IN
       /\ fs' = [fs EXCEPT ![p] = r.fs]
       /\ Logged(p, Call("saveInfoFromPath", name[p], 0, NoHandle,
                         IF r.err = NilErr THEN "nil" ELSE r.err.Err))
       /\ IF r.err # NilErr
          THEN Return(p, NilInfo, r.err)
          ELSE Return(p, r.fs, NilErr)
    /\ UNCHANGED <<plan, handles, active, entry, file, funcname, name,
                   createFileAttrs, namep, fd, sh, h, defers, ft, prev>>

(***************************************************************************)
(* stat, lines 57-64: the FindFirstFile fallback.                          *)
(***************************************************************************)
\* Line 61: the error of a failed FindFirstFile.
FindFirstFileError(p, err) == PathError("FindFirstFile", name[p], err)

\* A stat that goes on to CreateFile when FindFirstFile fails.
statFindFirstFile_ThenCreateFile(p) ==
    /\ pc[p] = "FindFirstFile"
    /\ LET r == OS_FindFirstFile(plan, handles, namep[p]) IN
       /\ Logged(p, Call("FindFirstFile", namep[p], 0, r.h, r.err))
       /\ handles' = r.tbl
       /\ IF r.err # "nil"
          THEN /\ pc' = [pc EXCEPT ![p] = "CreateFile"]
               /\ UNCHANGED <<sh, fd, ret>>
          ELSE /\ sh' = [sh EXCEPT ![p] = r.h]
               /\ fd' = [fd EXCEPT ![p] = r.fd]
               /\ pc' = [pc EXCEPT ![p] = "FindClose"]
               /\ UNCHANGED ret
    /\ UNCHANGED <<plan, active, entry, file, funcname, name, createFileAttrs,
                   namep, h, defers, fs, ft, prev>>

statFindFirstFile(p) ==
    /\ pc[p] = "FindFirstFile"
    /\ LET r == OS_FindFirstFile(plan, handles, namep[p]) IN
       /\ Logged(p, Call("FindFirstFile", namep[p], 0, r.h, r.err))
       /\ handles' = r.tbl
       /\ IF r.err # "nil"
          THEN /\ Return(p, NilInfo, FindFirstFileError(p, r.err))
               /\ UNCHANGED <<sh, fd>>
          ELSE /\ sh' = [sh EXCEPT ![p] = r.h]
               /\ fd' = [fd EXCEPT ![p] = r.fd]
               /\ pc' = [pc EXCEPT ![p] = "FindClose"]
               /\ UNCHANGED ret
    /\ UNCHANGED <<plan, active, entry, file, funcname, name, createFileAttrs,
                   namep, h, defers, fs, ft, prev>>

\* A stat that forgets line 63.
CloseSearch_Forgotten(tbl, x) == [tbl |-> tbl, calls |-> <<>>]

\* Line 63: syscall.FindClose(sh), its result dropped.
CloseSearch(tbl, x) ==
    LET r == OS_FindClose(tbl, x) IN
    [tbl |-> r.tbl, calls |-> <<Call("FindClose", <<>>, 0, x, r.err)>>]

\* stat, lines 63-64: FindClose, then the record from the entry.
statFindClose(p) ==
    /\ pc[p] = "FindClose"
    /\ LET r == CloseSearch(handles, sh[p]) IN
       /\ log' = [log EXCEPT ![p] = @ \o r.calls]
       /\ handles' = r.tbl
    /\ fs' = [fs EXCEPT ![p] = newFileStatFromWin32finddata(fd[p])]
    /\ pc' = [pc EXCEPT ![p] = "saveInfoFromPath"]
    /\ UNCHANGED <<plan, active, entry, file, funcname, name, createFileAttrs,
                   namep, fd, sh, h, defers, ft, ret, prev>>

(***************************************************************************)
(* stat, lines 71-82: CreateFile, the deferred CloseHandle, statHandle.    *)
(***************************************************************************)
\* A stat without line 81: the handle of CreateFile stays open.
Defer_Forgotten(ds, x) == ds

\* A stat that defers the CloseHandle of line 81 twice.
Defer_Twice(ds, x) == Append(Append(ds, x), x)

\* Line 81: defer syscall.CloseHandle(h).
Defer(ds, x) == Append(ds, x)

\* A stat that tags a failed CreateFile with funcname, as lines 29 and 33 do.
CreateFileError_Funcname(p, err) == PathError(funcname[p], name[p], err)

\* A stat that tags a failed CreateFile with the path given to the API.
CreateFileError_FixedPath(p, err) ==
    PathError("CreateFile", fixLongPath(name[p]), err)

\* Line 79: the error of a failed CreateFile.
CreateFileError(p, err) == PathError("CreateFile", name[p], err)

statCreateFile(p) ==
    /\ pc[p] = "CreateFile"
    /\ LET r == OS_CreateFile(plan, handles, namep[p], createFileAttrs[p]) IN
       /\ Logged(p, Call("CreateFile", namep[p], createFileAttrs[p], r.h, r.err))
       /\ handles' = r.tbl
       /\ IF r.err # "nil"
          THEN /\ Return(p, NilInfo, CreateFileError(p, r.err))
               /\ UNCHANGED <<h, defers>>
          ELSE /\ h' = [h EXCEPT ![p] = r.h]
               /\ defers' = [defers EXCEPT ![p] = Defer(@, r.h)]
               /\ pc' = [pc EXCEPT ![p] = "GetFileType"]
               /\ UNCHANGED ret
    /\ UNCHANGED <<plan, active, entry, file, funcname, name, createFileAttrs,
                   namep, fd, sh, fs, ft, prev>>

\* A stat whose CloseHandle is not deferred but follows a successful
\* statHandle only.
ReturnFromStatHandle_CloseOnSuccess(p, info, err) ==
    /\ ret' = [ret EXCEPT ![p] = [info |-> info, err |-> err]]
    /\ pc' = [pc EXCEPT ![p] = IF defers[p] # <<>> /\ err = NilErr
                               THEN "CloseHandle" ELSE "done"]

\* The return of statHandle to its caller: stat runs its deferred
\* CloseHandle before it returns the values, File.Stat returns them.
ReturnFromStatHandle(p, info, err) ==
    /\ ret' = [ret EXCEPT ![p] = [info |-> info, err |-> err]]
    /\ pc' = [pc EXCEPT ![p] = IF defers[p] # <<>> THEN "CloseHandle" ELSE "done"]

\* A statHandle whose switch names FILE_TYPE_PIPE alone.
IsPipeOrChar_PipeOnly(n) == n = FILE_TYPE_PIPE

\* Lines 90-91: the file types answered without the full query.
IsPipeOrChar(n) == n = FILE_TYPE_PIPE \/ n = FILE_TYPE_CHAR

\* Line 88: the error of a failed GetFileType.
GetFileTypeError(p, err) == PathError("GetFileType", name[p], err)

\* statHandle, lines 86-93: the type of the handle; pipes and character
\* devices are answered at once.
statHandleGetFileType(p) ==
    /\ pc[p] = "GetFileType"
    /\ LET r == OS_GetFileType(plan, handles, h[p]) IN
       /\ Logged(p, Call("GetFileType", <<>>, 0, h[p], r.err))
       /\ IF r.err # "nil"
          THEN /\ ReturnFromStatHandle(p, NilInfo, GetFileTypeError(p, r.err))
               /\ UNCHANGED <<ft, fs>>
          ELSE /\ ft' = [ft EXCEPT ![p] = r.n]
               /\ IF IsPipeOrChar(r.n)
                  THEN LET s == [ZeroFileStat EXCEPT !.name = basename(name[p]),
                                                     !.filetype = r.n] IN
                       /\ fs' = [fs EXCEPT ![p] = s]
                       /\ ReturnFromStatHandle(p, s, NilErr)
                  ELSE /\ pc' = [pc EXCEPT ![p] = "GetFileInformationByHandle"]
                       /\ UNCHANGED <<fs, ret>>
    /\ UNCHANGED <<plan, handles, active, entry, file, funcname, name,
                   createFileAttrs, namep, fd, sh, h, defers, prev>>

\* A statHandle without line 98.
WithFileType_Unset(s, n) == s

\* Line 98: fs.filetype = ft.
WithFileType(s, n) == [s EXCEPT !.filetype = n]

\* statHandle, lines 94-99: the full query and the file type.
statHandleGetFileInformation(p) ==
    /\ pc[p] = "GetFileInformationByHandle"
    /\ LET r == newFileStatFromGetFileInformationByHandle(plan, handles,
                                                          name[p], h[p]) IN
       /\ Logged(p, Call("GetFileInformationByHandle", <<>>, 0, h[p],
                         IF r.err = NilErr THEN "nil" ELSE r.err.Err))
       /\ IF r.err # NilErr
          THEN /\ ReturnFromStatHandle(p, NilInfo, r.err)
               /\ UNCHANGED fs
          ELSE LET s == WithFileType(r.fs, ft[p]) IN
               /\ fs' = [fs EXCEPT ![p] = s]
               /\ ReturnFromStatHandle(p, s, r.err)
    /\ UNCHANGED <<plan, handles, active, entry, file, funcname, name,
                   createFileAttrs, namep, fd, sh, h, defers, ft, prev>>

\* A stat that keeps h in a variable shared by all calls: the deferred
\* CloseHandle closes the file handle opened last by any of them.
CloseDeferred_SharedHandle(tbl, x) ==
    LET y == CHOOSE z \in Handles :
                 /\ tbl[z].type = "file"
                 /\ \A w \in Handles : tbl[w].type = "file" => w <= z
        r == OS_CloseHandle(tbl, y) IN
    [tbl |-> r.tbl, calls |-> <<Call("CloseHandle", <<>>, 0, y, r.err)>>]

\* Line 81 when it runs: syscall.CloseHandle(h), its result dropped.
CloseDeferred(tbl, x) ==
    LET r == OS_CloseHandle(tbl, x) IN
    [tbl |-> r.tbl, calls |-> <<Call("CloseHandle", <<>>, 0, x, r.err)>>]

\* stat, line 81 run at the return of line 82: the deferred CloseHandle.
statDeferredCloseHandle(p) ==
    /\ pc[p] = "CloseHandle"
    /\ LET x == defers[p][Len(defers[p])]
           r == CloseDeferred(handles, x) IN
       /\ log' = [log EXCEPT ![p] = @ \o r.calls]
       /\ handles' = r.tbl
    /\ defers' = [defers EXCEPT ![p] = SubSeq(@, 1, Len(@) - 1)]
    /\ pc' = [pc EXCEPT ![p] = IF Len(defers[p]) > 1 THEN "CloseHandle" ELSE "done"]
    /\ UNCHANGED <<plan, active, entry, file, funcname, name, createFileAttrs,
                   namep, fd, sh, h, fs, ft, ret, prev>>

(***************************************************************************)
(* File.Stat, lines 15-24.                                                 *)
(***************************************************************************)
\* A File.Stat without the test of line 19.
isdir_Never(f) == FALSE

\* Line 19: file.isdir().
isdir(f) == f.isdir

\* A File.Stat that defers a CloseHandle of the handle it passes to
\* statHandle, as stat does with the handle it opens.
FileStat_ClosesHandle(p, f) ==
    /\ p \in active /\ pc[p] = "idle"
    /\ entry' = [entry EXCEPT ![p] = "File.Stat"]
    /\ file' = [file EXCEPT ![p] = f]
    /\ IF f.nil
       THEN /\ Return(p, NilInfo, ErrInvalid)
            /\ log' = [log EXCEPT ![p] = <<>>]
            /\ name' = [name EXCEPT ![p] = <<>>]
            /\ funcname' = [funcname EXCEPT ![p] = ""]
            /\ h' = [h EXCEPT ![p] = NoHandle]
            /\ UNCHANGED <<plan, handles, active, createFileAttrs, namep, fd,
                           sh, defers, fs, ft, prev>>
       ELSE IF isdir(f)
       THEN stat(p, "Stat", f.dirpath, StatAttrs)
       ELSE /\ name' = [name EXCEPT ![p] = f.name]
            /\ h' = [h EXCEPT ![p] = f.Sysfd]
            /\ defers' = [defers EXCEPT ![p] = Defer(@, f.Sysfd)]
            /\ funcname' = [funcname EXCEPT ![p] = ""]
            /\ log' = [log EXCEPT ![p] = <<>>]
            /\ pc' = [pc EXCEPT ![p] = "GetFileType"]
            /\ ret' = [ret EXCEPT ![p] = [info |-> NilInfo, err |-> NilErr]]
            /\ UNCHANGED <<plan, handles, active, createFileAttrs, namep, fd,
                           sh, fs, ft, prev>>

FileStat(p, f) ==
    /\ p \in active /\ pc[p] = "idle"
    /\ entry' = [entry EXCEPT ![p] = "File.Stat"]
    /\ file' = [file EXCEPT ![p] = f]
    /\ IF f.nil
       THEN /\ Return(p, NilInfo, ErrInvalid)
            /\ log' = [log EXCEPT ![p] = <<>>]
            /\ name' = [name EXCEPT ![p] = <<>>]
            /\ funcname' = [funcname EXCEPT ![p] = ""]
            /\ h' = [h EXCEPT ![p] = NoHandle]
            /\ UNCHANGED <<plan, handles, active, createFileAttrs, namep, fd,
                           sh, defers, fs, ft, prev>>
       ELSE IF isdir(f)
       THEN stat(p, "Stat", f.dirpath, StatAttrs)
       ELSE /\ name' = [name EXCEPT ![p] = f.name]
            /\ h' = [h EXCEPT ![p] = f.Sysfd]
            /\ funcname' = [funcname EXCEPT ![p] = ""]
            /\ log' = [log EXCEPT ![p] = <<>>]
            /\ pc' = [pc EXCEPT ![p] = "GetFileType"]
            /\ ret' = [ret EXCEPT ![p] = [info |-> NilInfo, err |-> NilErr]]
            /\ UNCHANGED <<plan, handles, active, createFileAttrs, namep, fd,
                           sh, defers, fs, ft, prev>>

\* The caller takes the returned values; the thread is free for a new call.
TakeResult(p) ==
    /\ pc[p] = "done"
    /\ prev' = [prev EXCEPT ![p] = [entry |-> entry[p], name |-> name[p],
                                    ret |-> ret[p], log |-> log[p]]]
    /\ pc' = [pc EXCEPT ![p] = "idle"]
    /\ entry' = [entry EXCEPT ![p] = ""]
    /\ file' = [file EXCEPT ![p] = NilFile]
    /\ funcname' = [funcname EXCEPT ![p] = ""]
    /\ name' = [name EXCEPT ![p] = <<>>]
    /\ createFileAttrs' = [createFileAttrs EXCEPT ![p] = 0]
    /\ namep' = [namep EXCEPT ![p] = <<>>]
    /\ fd' = [fd EXCEPT ![p] = ZeroFindData]
    /\ sh' = [sh EXCEPT ![p] = NoHandle]
    /\ h' = [h EXCEPT ![p] = NoHandle]
    /\ defers' = [defers EXCEPT ![p] = <<>>]
    /\ fs' = [fs EXCEPT ![p] = ZeroFileStat]
    /\ ft' = [ft EXCEPT ![p] = 0]
    /\ ret' = [ret EXCEPT ![p] = [info |-> NilInfo, err |-> NilErr]]
    /\ log' = [log EXCEPT ![p] = <<>>]
    /\ UNCHANGED <<plan, handles, active>>

Next ==
    \/ \E p \in Procs, nm \in Names : statNolog(p, nm)
    \/ \E p \in Procs, nm \in Names : lstatNolog(p, nm)
    \/ \E p \in Procs, f \in Files : FileStat(p, f)
    \/ \E p \in Procs : statGetFileAttributesEx(p)
    \/ \E p \in Procs : statSaveInfoFromPath(p)
    \/ \E p \in Procs : statFindFirstFile(p)
    \/ \E p \in Procs : statFindClose(p)
    \/ \E p \in Procs : statCreateFile(p)
    \/ \E p \in Procs : statHandleGetFileType(p)
    \/ \E p \in Procs : statHandleGetFileInformation(p)
    \/ \E p \in Procs : statDeferredCloseHandle(p)
    \/ \E p \in Procs : TakeResult(p)

Spec == Init /\ [][Next]_vars

\* The step of the call of thread p: the API call it stands at.
Step(p) ==
    \/ statGetFileAttributesEx(p)
    \/ statSaveInfoFromPath(p)
    \/ statFindFirstFile(p)
    \/ statFindClose(p)
    \/ statCreateFile(p)
    \/ statHandleGetFileType(p)
    \/ statHandleGetFileInformation(p)
    \/ statDeferredCloseHandle(p)

\* Every API call returns and the calling thread goes on: a call that can
\* take its next step takes it.
SpecLive == Spec /\ \A p \in Procs : WF_vars(Step(p))

(***************************************************************************)
(* Calls on two threads at once.  Each thread makes one call; the steps of *)
(* the two calls interleave in every order, each API call being one step.  *)
(***************************************************************************)
ConcNames == {FileName, LinkName}
ConcFiles == {RegFile, DirFile}

InitConc ==
    /\ plan \in Plans
    /\ active = Procs
    /\ InitCalls

\* The thread has made no call yet.
FirstCall(p) == prev[p] = NoCall

NextConc ==
    \/ \E p \in Procs, nm \in ConcNames : FirstCall(p) /\ statNolog(p, nm)
    \/ \E p \in Procs, nm \in ConcNames : FirstCall(p) /\ lstatNolog(p, nm)
    \/ \E p \in Procs, f \in ConcFiles : FirstCall(p) /\ FileStat(p, f)
    \/ \E p \in Procs : statGetFileAttributesEx(p)
    \/ \E p \in Procs : statSaveInfoFromPath(p)
    \/ \E p \in Procs : statFindFirstFile(p)
    \/ \E p \in Procs : statFindClose(p)
    \/ \E p \in Procs : statCreateFile(p)
    \/ \E p \in Procs : statHandleGetFileType(p)
    \/ \E p \in Procs : statHandleGetFileInformation(p)
    \/ \E p \in Procs : statDeferredCloseHandle(p)
    \/ \E p \in Procs : TakeResult(p)

SpecConc == InitConc /\ [][NextConc]_vars

(***************************************************************************)
(* Vocabulary of the properties.                                           *)
(***************************************************************************)
\* The call of thread p has returned and its values are not yet taken.
Done(p) == pc[p] = "done"

\* The call of thread p runs stat (from Stat, Lstat or File.Stat).
InStat(p) == funcname[p] \in {"Stat", "Lstat"}

\* The positions in the log of p of the calls of an API.
CallsOf(p, api) == {i \in 1..Len(log[p]) : log[p][i].api = api}
Called(p, api) == CallsOf(p, api) # {}

OpenApis == {"FindFirstFile", "CreateFile"}
CloseApis == {"FindClose", "CloseHandle"}

\* Handles the call opened, handles it released.
Opened(p) ==
    {i \in 1..Len(log[p]) : log[p][i].api \in OpenApis /\ log[p][i].err = "nil"}
Released(p) ==
    {i \in 1..Len(log[p]) : log[p][i].api \in CloseApis /\ log[p][i].err = "nil"}

\* The error GetFileAttributesEx gave to the call of p ("nil": success).
FastErr(p) == log[p][1].err
FastQueried(p) == Len(log[p]) >= 1 /\ log[p][1].api = "GetFileAttributesEx"

\* What the fast query of the name of p answers in this run.
FastData(p) == OS_GetFileAttributesEx(plan, namep[p]).fa
FastIsReparse(p) == HasBit(FastData(p).FileAttributes, FILE_ATTRIBUTE_REPARSE_POINT)

\* The last call of p that is not a close.
LastQuery(p) ==
    LET qs == {i \in 1..Len(log[p]) : log[p][i].api \notin CloseApis}
    IN log[p][CHOOSE i \in qs : \A j \in qs : j <= i]

Succeeded(p) == ret[p].info # NilInfo
Failed(p) == ret[p].err # NilErr

(***************************************************************************)
(* C1.  When a call of stat returns, whatever the OS answered, it has      *)
(* released as many handles as it opened: each handle it opened is closed  *)
(* by a later call of its own, and alone it leaves the handle table as it  *)
(* found it.                                                               *)
(***************************************************************************)
C1_HandlesBalanced ==
    \A p \in Procs :
        Done(p) /\ InStat(p) =>
            /\ Cardinality(Opened(p)) = Cardinality(Released(p))
            /\ \A i \in Opened(p) :
                   \E j \in Released(p) : j > i /\ log[p][j].h = log[p][i].h
            /\ (active = {p} => handles = InitHandles)

\* A call that opened a search handle has returned.
C1_Witness ==
    \E p \in Procs :
        /\ Done(p) /\ InStat(p)
        /\ \E i \in Opened(p) : log[p][i].api = "FindFirstFile"

(***************************************************************************)
(* C2 as written.  A GetFileAttributesEx error other than a sharing        *)
(* violation ends the call: that error is returned and neither             *)
(* FindFirstFile nor CreateFile is called.                                 *)
(***************************************************************************)
C2_OtherErrorIsTerminal ==
    \A p \in Procs :
        Done(p) /\ InStat(p) /\ FastQueried(p)
              /\ FastErr(p) \notin {"nil", "ERROR_SHARING_VIOLATION"} =>
            /\ ~Called(p, "FindFirstFile")
            /\ ~Called(p, "CreateFile")
            /\ Failed(p) /\ ret[p].err.Err = FastErr(p)

(***************************************************************************)
(* C2 amended.  A sharing violation is the only GetFileAttributesEx error  *)
(* after which FindFirstFile is called.  After any other error of          *)
(* GetFileAttributesEx the call goes on to CreateFile, FindFirstFile is    *)
(* not called, and what the call returns comes from CreateFile and         *)
(* statHandle: no returned error names GetFileAttributesEx.                *)
(***************************************************************************)
C2_OtherErrorFallsToCreateFile ==
    \A p \in Procs :
        InStat(p) /\ FastQueried(p) =>
            /\ Called(p, "FindFirstFile") => FastErr(p) = "ERROR_SHARING_VIOLATION"
            /\ Done(p) /\ FastErr(p) \notin {"nil", "ERROR_SHARING_VIOLATION"} =>
                  /\ log[p][2].api = "CreateFile"
                  /\ ~Called(p, "FindFirstFile")
                  /\ Failed(p) =>
                        ret[p].err.Op \in {"CreateFile", "GetFileType",
                                           "GetFileInformationByHandle"}
            /\ Done(p) /\ Failed(p) => ret[p].err.Op # "GetFileAttributesEx"

\* A call whose fast query was denied access has returned what the handle gave.
C2_Witness ==
    \E p \in Procs :
        /\ Done(p) /\ InStat(p) /\ FastQueried(p)
        /\ FastErr(p) = "ERROR_ACCESS_DENIED"
        /\ Called(p, "CreateFile") /\ Succeeded(p)

(***************************************************************************)
(* C3 as written.  When the fast query succeeds and the call is Lstat or   *)
(* the reparse-point bit is clear, the record is built from the fast-query *)
(* data and CreateFile is not called.                                      *)
(***************************************************************************)
\* The record the fast path returns for the name of p.
FastRecord(p) ==
    saveInfoFromPath(plan, newFileStatFromAttributeData(FastData(p)), name[p]).fs

C3_FastPathAlsoForLstat ==
    \A p \in Procs :
        Done(p) /\ InStat(p) /\ FastQueried(p) /\ FastErr(p) = "nil"
              /\ (funcname[p] = "Lstat" \/ ~FastIsReparse(p)) =>
            /\ ~Called(p, "CreateFile")
            /\ Succeeded(p) => ret[p].info = FastRecord(p)

(***************************************************************************)
(* C3 amended.  When the fast query succeeds and the reparse-point bit is  *)
(* clear, for Stat and Lstat alike, the call ends with the enrichment: no  *)
(* handle is opened and a returned record is the fast-query data.  When    *)
(* the fast query succeeds on a reparse point, Stat and Lstat alike go on  *)
(* to CreateFile with their own flags: Lstat on a reparse point opens a    *)
(* handle, with FILE_FLAG_OPEN_REPARSE_POINT.                              *)
(***************************************************************************)
C3_FastPathOnlyWithoutReparseBit ==
    \A p \in Procs :
        Done(p) /\ InStat(p) /\ FastQueried(p) /\ FastErr(p) = "nil" =>
            IF ~FastIsReparse(p)
            THEN /\ Len(log[p]) = 2 /\ log[p][2].api = "saveInfoFromPath"
                 /\ Opened(p) = {}
                 /\ Succeeded(p) => ret[p].info = FastRecord(p)
                 /\ Succeeded(p) \/ ret[p].err.Op = "saveInfoFromPath"
            ELSE /\ log[p][2].api = "CreateFile"
                 /\ log[p][2].attrs = createFileAttrs[p]
                 /\ funcname[p] = "Lstat" =>
                       HasBit(log[p][2].attrs, FILE_FLAG_OPEN_REPARSE_POINT)
                 /\ ~Called(p, "saveInfoFromPath")

\* Lstat of the link went through a handle, then Lstat of the plain file
\* was answered by the fast query.
C3_Witness ==
    \E p \in Procs :
        /\ Done(p) /\ funcname[p] = "Lstat" /\ name[p] = FileName
        /\ FastQueried(p) /\ FastErr(p) = "nil" /\ Succeeded(p)
        /\ prev[p].entry = "Lstat" /\ prev[p].name = LinkName
        /\ prev[p].ret.info # NilInfo
        /\ \E i \in 1..Len(prev[p].log) : prev[p].log[i].api = "CreateFile"

(***************************************************************************)
(* C4.  For the reparse point that points to a regular file, a record      *)
(* returned by Stat describes the target and was read through a handle     *)
(* opened without FILE_FLAG_OPEN_REPARSE_POINT; a record returned by Lstat *)
(* describes the link itself and has the reparse-point bit set.            *)
(***************************************************************************)
Describes(info, o) ==
    /\ info.FileAttributes = ObjData[o].attrs
    /\ info.FileSizeHigh = ObjData[o].sizeHigh
    /\ info.FileSizeLow = ObjData[o].sizeLow
    /\ info.LastWriteTime = ObjData[o].wtime

C4_StatTargetLstatLink ==
    \A p \in Procs :
        Done(p) /\ entry[p] \in {"Stat", "Lstat"} /\ name[p] = LinkName
              /\ Succeeded(p) =>
            /\ entry[p] = "Stat" =>
                  /\ Describes(ret[p].info, ObjData["L"].target)
                  /\ \E i \in CallsOf(p, "CreateFile") :
                         ~HasBit(log[p][i].attrs, FILE_FLAG_OPEN_REPARSE_POINT)
            /\ entry[p] = "Lstat" =>
                  /\ Describes(ret[p].info, "L")
                  /\ HasBit(ret[p].info.FileAttributes, FILE_ATTRIBUTE_REPARSE_POINT)

(***************************************************************************)
(* C5.  For an existing regular file that is no reparse point, Stat and    *)
(* Lstat of the same name under the same answers of the OS return the same *)
(* values: the same record, or the same error.                             *)
(***************************************************************************)
RegularNames == {FileName, LongName}

C5_StatEqualsLstatOnRegularFile ==
    \A p \in Procs :
        Done(p) /\ name[p] \in RegularNames /\ prev[p].name = name[p]
              /\ {prev[p].entry, entry[p]} = {"Stat", "Lstat"} =>
            ret[p] = prev[p].ret

\* Stat and Lstat of the regular file, both answered through a handle.
C5_Witness ==
    \E p \in Procs :
        /\ Done(p) /\ name[p] = FileName /\ prev[p].name = FileName
        /\ prev[p].entry = "Stat" /\ entry[p] = "Lstat"
        /\ Called(p, "CreateFile") /\ Succeeded(p)
        /\ ret[p] = prev[p].ret

(***************************************************************************)
(* C6.  Stat and Lstat of the empty name return no record and the          *)
(* PathError of ERROR_PATH_NOT_FOUND with the empty path, whose Op is      *)
(* "Stat" for Stat and "Lstat" for Lstat, and make no API call.            *)
(***************************************************************************)
C6_EmptyName ==
    \A p \in Procs :
        Done(p) /\ entry[p] \in {"Stat", "Lstat"} /\ name[p] = EmptyName =>
            /\ ret[p] = [info |-> NilInfo,
                         err |-> [Op |-> entry[p], Path |-> <<>>,
                                  Err |-> "ERROR_PATH_NOT_FOUND"]]
            /\ log[p] = <<>>
            /\ active = {p} => handles = InitHandles

\* Lstat of the empty name has returned, after Stat of the empty name.
C6_Witness ==
    \E p \in Procs :
        /\ Done(p) /\ entry[p] = "Lstat" /\ name[p] = EmptyName
        /\ ret[p].err.Op = "Lstat"
        /\ prev[p].entry = "Stat" /\ prev[p].name = EmptyName
        /\ prev[p].ret.err.Op = "Stat"

(***************************************************************************)
(* C7.  After a sharing violation of the fast query the call is finished   *)
(* by FindFirstFile alone: CreateFile is never called; a failure of        *)
(* FindFirstFile is returned tagged "FindFirstFile"; when FindFirstFile    *)
(* and the enrichment succeed the record is a copy of the enumeration      *)
(* entry.                                                                  *)
(***************************************************************************)
\* The enumeration entry of the name of p.
EntryOf(p) == OS_FindFirstFile(plan, InitHandles, namep[p]).fd

CopiesEntry(info, d) ==
    /\ info.FileAttributes = d.FileAttributes
    /\ info.CreationTime = d.CreationTime
    /\ info.LastAccessTime = d.LastAccessTime
    /\ info.LastWriteTime = d.LastWriteTime
    /\ info.FileSizeHigh = d.FileSizeHigh
    /\ info.FileSizeLow = d.FileSizeLow
    /\ info.Reserved0 = d.Reserved0

C7_SharingViolationUsesFindFirstFile ==
    \A p \in Procs :
        InStat(p) /\ FastQueried(p) /\ FastErr(p) = "ERROR_SHARING_VIOLATION" =>
            /\ ~Called(p, "CreateFile")
            /\ pc[p] # "CreateFile"
            /\ Done(p) =>
                  /\ Cardinality(CallsOf(p, "FindFirstFile")) = 1
                  /\ log[p][2].api = "FindFirstFile"
                  /\ log[p][2].err # "nil" =>
                        ret[p] = [info |-> NilInfo,
                                  err |-> PathError("FindFirstFile", name[p],
                                                    log[p][2].err)]
                  /\ log[p][2].err = "nil" /\ plan.save = "OK" =>
                        /\ Succeeded(p) /\ ~Failed(p)
                        /\ CopiesEntry(ret[p].info, EntryOf(p))

\* The locked file was answered from its enumeration entry.
C7_Witness ==
    \E p \in Procs :
        /\ Done(p) /\ InStat(p) /\ FastQueried(p)
        /\ FastErr(p) = "ERROR_SHARING_VIOLATION"
        /\ Succeeded(p) /\ ret[p].info.FileSizeLow = ObjData["F"].sizeLow

(***************************************************************************)
(* C8.  When GetFileType answers Pipe or Character, statHandle returns the *)
(* record that holds nothing but the base name and the file type, and      *)
(* makes no further query; so every returned record whose file type is     *)
(* Pipe or Character has all other fields zero.                            *)
(***************************************************************************)
MinimalRecord(nm, n) == [ZeroFileStat EXCEPT !.name = basename(nm), !.filetype = n]

C8_PipeAndCharAreMinimal ==
    \A p \in Procs :
        Done(p) =>
            /\ Succeeded(p) /\ ret[p].info.filetype \in {FILE_TYPE_PIPE, FILE_TYPE_CHAR} =>
                  /\ ret[p].info = MinimalRecord(name[p], ret[p].info.filetype)
                  /\ ~Called(p, "GetFileInformationByHandle")
            /\ \A i \in CallsOf(p, "GetFileType") :
                  log[p][i].err = "nil" /\ ft[p] \in {FILE_TYPE_PIPE, FILE_TYPE_CHAR} =>
                     /\ ret[p] = [info |-> MinimalRecord(name[p], ft[p]),
                                  err |-> NilErr]
                     /\ LastQuery(p).api = "GetFileType"

\* Both kinds were met: a pipe through File.Stat, a character device
\* through a handle opened by stat.
C8_Witness ==
    \E p \in Procs :
        /\ Done(p) /\ InStat(p) /\ Succeeded(p)
        /\ ret[p].info.filetype = FILE_TYPE_CHAR
        /\ ret[p].info.name = <<"c">>
        /\ prev[p].entry = "File.Stat" /\ prev[p].ret.info # NilInfo
        /\ prev[p].ret.info.filetype = FILE_TYPE_PIPE
        /\ prev[p].ret.info.name = <<"p">>

(***************************************************************************)
(* C9.  Every CreateFile of stat has FILE_FLAG_BACKUP_SEMANTICS, and has   *)
(* FILE_FLAG_OPEN_REPARSE_POINT exactly when the call is Lstat; stat runs  *)
(* only with the parameters of statNolog or those of lstatNolog.           *)
(***************************************************************************)
C9_CreateFileFlags ==
    \A p \in Procs :
        /\ \A i \in CallsOf(p, "CreateFile") :
              /\ HasBit(log[p][i].attrs, FILE_FLAG_BACKUP_SEMANTICS)
              /\ HasBit(log[p][i].attrs, FILE_FLAG_OPEN_REPARSE_POINT)
                    <=> entry[p] = "Lstat"
        /\ InStat(p) =>
              \/ /\ funcname[p] = "Stat" /\ entry[p] \in {"Stat", "File.Stat"}
                 /\ createFileAttrs[p] = FILE_FLAG_BACKUP_SEMANTICS
              \/ /\ funcname[p] = "Lstat" /\ entry[p] = "Lstat"
                 /\ createFileAttrs[p] =
                       FILE_FLAG_BACKUP_SEMANTICS + FILE_FLAG_OPEN_REPARSE_POINT

\* Lstat has called CreateFile, after a Stat that called it too.
C9_Witness ==
    \E p \in Procs :
        /\ entry[p] = "Lstat" /\ Called(p, "CreateFile")
        /\ prev[p].entry = "Stat"
        /\ \E i \in 1..Len(prev[p].log) : prev[p].log[i].api = "CreateFile"

(***************************************************************************)
(* C10.  An error returned because GetFileAttributesEx, FindFirstFile,     *)
(* CreateFile or GetFileType failed is the PathError whose Op is the name  *)
(* of the API that failed, whose Err is the error of that API and whose    *)
(* Path is the name the caller gave, not the name rewritten for the API.   *)
(***************************************************************************)
TaggedApis == {"GetFileAttributesEx", "FindFirstFile", "CreateFile", "GetFileType"}

C10_ErrorsNameTheFailedCall ==
    \A p \in Procs :
        Done(p) /\ log[p] # <<>> =>
            /\ LastQuery(p).err # "nil" /\ LastQuery(p).api \in TaggedApis =>
                  ret[p] = [info |-> NilInfo,
                            err |-> [Op |-> LastQuery(p).api, Path |-> name[p],
                                     Err |-> LastQuery(p).err]]
            /\ Failed(p) /\ ret[p].err.Op \in TaggedApis =>
                  /\ LastQuery(p).api = ret[p].err.Op
                  /\ LastQuery(p).err = ret[p].err.Err
                  /\ ret[p].err.Path = name[p]

\* CreateFile failed on the long name, which the API got rewritten.
C10_Witness ==
    \E p \in Procs :
        /\ Done(p) /\ name[p] = LongName /\ fixLongPath(name[p]) # name[p]
        /\ Failed(p) /\ ret[p].err.Op = "CreateFile"
        /\ ret[p].err.Path = LongName

(***************************************************************************)
(* C11.  On the two attribute-only paths of stat (the fast query answered  *)
(* the call, or FindFirstFile did) saveInfoFromPath runs exactly once, as  *)
(* the last step before the return; when it fails the call returns that    *)
(* error and no record.  A call that went to CreateFile never runs it.     *)
(***************************************************************************)
\* The call of p took the fast path, or the FindFirstFile path with success.
AttributeOnly(p) ==
    /\ FastQueried(p)
    /\ \/ FastErr(p) = "nil" /\ ~FastIsReparse(p)
       \/ \E i \in CallsOf(p, "FindFirstFile") : log[p][i].err = "nil"

C11_EnrichmentOnceAndFatal ==
    \A p \in Procs :
        Done(p) /\ InStat(p) =>
            /\ AttributeOnly(p) =>
                  /\ Cardinality(CallsOf(p, "saveInfoFromPath")) = 1
                  /\ log[p][Len(log[p])].api = "saveInfoFromPath"
                  /\ log[p][Len(log[p])].arg = name[p]
                  /\ IF log[p][Len(log[p])].err # "nil"
                     THEN ret[p] = [info |-> NilInfo,
                                    err |-> saveInfoFromPath(plan, fs[p], name[p]).err]
                     ELSE Succeeded(p) /\ ~Failed(p)
            /\ Called(p, "CreateFile") => ~Called(p, "saveInfoFromPath")
            /\ Called(p, "saveInfoFromPath") => AttributeOnly(p)

\* The enrichment failed after FindFirstFile had answered.
C11_Witness ==
    \E p \in Procs :
        /\ Done(p) /\ InStat(p) /\ AttributeOnly(p)
        /\ \E i \in CallsOf(p, "FindFirstFile") : log[p][i].err = "nil"
        /\ log[p][Len(log[p])].err = "ERROR_BAD_PATHNAME"
        /\ Failed(p) /\ ~Succeeded(p)

(***************************************************************************)
(* C12.  File.Stat on a nil File returns ErrInvalid and calls no API; on a *)
(* File that is a directory it runs stat as Stat does, with the path the   *)
(* directory remembers, and never queries the handle of the File; on any   *)
(* other File it runs statHandle with the name and the handle of the File. *)
(***************************************************************************)
QueryApis == {"GetFileType", "GetFileInformationByHandle"}

C12_FileStatDispatch ==
    \A p \in Procs :
        entry[p] = "File.Stat" =>
            IF file[p].nil
            THEN Done(p) /\ ret[p] = [info |-> NilInfo, err |-> ErrInvalid]
                         /\ log[p] = <<>>
            ELSE IF file[p].isdir
            THEN /\ funcname[p] = "Stat" /\ name[p] = file[p].dirpath
                 /\ createFileAttrs[p] = StatAttrs
                 /\ h[p] # file[p].Sysfd
                 /\ \A i \in 1..Len(log[p]) :
                        /\ log[p][i].h # file[p].Sysfd
                        /\ i = 1 => log[p][i].api = "GetFileAttributesEx"
                        /\ log[p][i].api \in QueryApis =>
                              \E j \in 1..(i - 1) :
                                  /\ log[p][j].api = "CreateFile"
                                  /\ log[p][j].h = log[p][i].h
            ELSE /\ funcname[p] = "" /\ name[p] = file[p].name
                 /\ h[p] = file[p].Sysfd
                 /\ \A i \in 1..Len(log[p]) :
                        log[p][i].api \in QueryApis /\ log[p][i].h = file[p].Sysfd
                 /\ Done(p) => log[p] # <<>> /\ log[p][1].api = "GetFileType"

\* File.Stat on the directory got its record through stat.
C12_Witness ==
    \E p \in Procs :
        /\ Done(p) /\ entry[p] = "File.Stat" /\ file[p] = DirFile
        /\ Succeeded(p) /\ ret[p].info.FileAttributes = FILE_ATTRIBUTE_DIRECTORY
        /\ prev[p].entry = "File.Stat" /\ prev[p].ret.err = ErrInvalid

(***************************************************************************)
(* C13.  Calls running at the same time on different threads do not        *)
(* interfere: a call closes only handles it opened itself, the handles two *)
(* calls hold are distinct, and what a call returns is what the same call  *)
(* returns when it runs alone with the same answers of the OS.             *)
(***************************************************************************)
\* The values of the two results of statHandle, lines 85-100, on table tbl.
AloneStatHandle(p, tbl, x) ==
    LET t == OS_GetFileType(plan, tbl, x) IN
    IF t.err # "nil"
    THEN [info |-> NilInfo, err |-> GetFileTypeError(p, t.err)]
    ELSE IF IsPipeOrChar(t.n)
    THEN [info |-> [ZeroFileStat EXCEPT !.name = basename(name[p]),
                                        !.filetype = t.n],
          err |-> NilErr]
    ELSE LET r == newFileStatFromGetFileInformationByHandle(plan, tbl,
                                                            name[p], x) IN
         IF r.err # NilErr
         THEN [info |-> NilInfo, err |-> r.err]
         ELSE [info |-> WithFileType(r.fs, t.n), err |-> NilErr]

\* Lines 50-53 and 65-68 as a function of the record s.
AloneEnriched(p, s) ==
    LET r == saveInfoFromPath(plan, s, name[p]) IN
    IF r.err # NilErr THEN [info |-> NilInfo, err |-> r.err]
    ELSE [info |-> r.fs, err |-> NilErr]

\* What stat returns for the parameters of p when no other call runs.
AloneStat(p) ==
    IF IsEmptyName(name[p])
    THEN [info |-> NilInfo,
          err |-> PathError(funcname[p], name[p], "ERROR_PATH_NOT_FOUND")]
    ELSE LET u == UTF16PtrFromString(fixLongPath(name[p])) IN
         IF u.err # "nil"
         THEN [info |-> NilInfo,
               err |-> EncodingError(funcname[p], name[p], u.err)]
         ELSE LET a == OS_GetFileAttributesEx(plan, u.p) IN
              IF NotASymlink(a.err, a.fa)
              THEN AloneEnriched(p, newFileStatFromAttributeData(a.fa))
              ELSE IF UseFindFirstFile(a.err)
              THEN LET f == OS_FindFirstFile(plan, InitHandles, u.p) IN
                   IF f.err # "nil"
                   THEN [info |-> NilInfo, err |-> FindFirstFileError(p, f.err)]
                   ELSE AloneEnriched(p, newFileStatFromWin32finddata(f.fd))
              ELSE LET c == OS_CreateFile(plan, InitHandles, u.p,
                                          createFileAttrs[p]) IN
                   IF c.err # "nil"
                   THEN [info |-> NilInfo, err |-> CreateFileError(p, c.err)]
                   ELSE AloneStatHandle(p, c.tbl, c.h)

\* What the call of p returns when no other call runs.
Alone(p) ==
    IF entry[p] = "File.Stat" /\ file[p].nil
    THEN [info |-> NilInfo, err |-> ErrInvalid]
    ELSE IF entry[p] = "File.Stat" /\ ~isdir(file[p])
    THEN AloneStatHandle(p, InitHandles, file[p].Sysfd)
    ELSE AloneStat(p)

\* The handles the call of p opened and has not closed.
Held(p) ==
    {log[p][i].h : i \in {k \in Opened(p) :
        ~\E j \in Released(p) : j > k /\ log[p][j].h = log[p][k].h}}

C13_CallsIndependent ==
    \A p \in Procs :
        /\ \A j \in 1..Len(log[p]) :
               log[p][j].api \in CloseApis =>
                   \E i \in Opened(p) : i < j /\ log[p][i].h = log[p][j].h
        /\ \A q \in Procs \ {p} : Held(p) \cap Held(q) = {}
        /\ Held(p) \cap {RegFileHandle, PipeFileHandle, DirFileHandle} = {}
        /\ \A x \in Held(p) : handles[x] # FreeSlot
        /\ Done(p) => ret[p] = Alone(p)

\* Both calls have returned, and each opened a handle with CreateFile while
\* the other call held its own.
C13_Witness ==
    /\ \A p \in Procs : Done(p)
    /\ \E i \in Opened(1), j \in Opened(2) :
           /\ log[1][i].api = "CreateFile" /\ log[2][j].api = "CreateFile"
           /\ log[1][i].h # log[2][j].h
    /\ \E p \in Procs : Succeeded(p)

(***************************************************************************)
(* C14.  Idempotence: when a thread resolves the same name with the same   *)
(* variant twice in a row, nothing having changed in between, the second   *)
(* call makes the same API calls with the same outcomes as the first and   *)
(* returns the same error and a record equal in every field except         *)
(* possibly the last-access time.                                          *)
(***************************************************************************)
\* The APIs of a log and how each ended, in order.
Strategy(l) == [i \in 1..Len(l) |-> <<l[i].api, l[i].err>>]

\* A record without its last-access time.
SansAccessTime(info) ==
    IF info = NilInfo THEN info ELSE [info EXCEPT !.LastAccessTime = 0]

\* The call of p repeats the call p finished just before.
Repeats(p) ==
    /\ Done(p) /\ entry[p] \in {"Stat", "Lstat"}
    /\ prev[p].entry = entry[p] /\ prev[p].name = name[p]

C14_Idempotent ==
    \A p \in Procs :
        Repeats(p) =>
            /\ Strategy(log[p]) = Strategy(prev[p].log)
            /\ ret[p].err = prev[p].ret.err
            /\ SansAccessTime(ret[p].info) = SansAccessTime(prev[p].ret.info)

\* A call that opened a handle and returned a record has been repeated.
C14_Witness ==
    \E p \in Procs :
        /\ Repeats(p) /\ Succeeded(p)
        /\ \E i \in Opened(p) : log[p][i].api = "CreateFile"
        /\ prev[p].ret.info # NilInfo

(***************************************************************************)
(* C15.  In a call of stat with a name that is not empty and can be        *)
(* converted, GetFileAttributesEx is the first call of the OS and comes    *)
(* before any handle is opened; each of GetFileAttributesEx,               *)
(* FindFirstFile, CreateFile, GetFileType and GetFileInformationByHandle   *)
(* is called at most once; FindFirstFile and CreateFile are never both     *)
(* called; and the call returns.                                           *)
(***************************************************************************)
ChainApis == {"GetFileAttributesEx", "FindFirstFile", "CreateFile",
              "GetFileType", "GetFileInformationByHandle"}

\* The name can be converted for the API.
Encodable(nm) == UTF16PtrFromString(fixLongPath(nm)).err = "nil"

\* stat has passed lines 28-34 with the name of p.
PastEncoding(p) == InStat(p) /\ ~IsEmptyName(name[p]) /\ Encodable(name[p])

ChainInOrder(p) ==
    PastEncoding(p) =>
        /\ pc[p] = "GetFileAttributesEx" => log[p] = <<>>
        /\ pc[p] # "GetFileAttributesEx" => FastQueried(p)
        /\ \A i \in Opened(p) : i > 1
        /\ \A a \in ChainApis : Cardinality(CallsOf(p, a)) <= 1
        /\ ~(Called(p, "FindFirstFile") /\ Called(p, "CreateFile"))

C15_BoundedChain ==
    /\ [](\A p \in Procs : ChainInOrder(p))
    /\ \A p \in Procs : (pc[p] = "GetFileAttributesEx") ~> Done(p)

\* A call has returned after the longest chain: the fast query, CreateFile
\* and both queries of the handle.
C15_Witness ==
    \E p \in Procs :
        /\ Done(p) /\ PastEncoding(p)
        /\ Called(p, "CreateFile")
        /\ Called(p, "GetFileInformationByHandle")

(***************************************************************************)
(* C16.  When GetFileType fails, statHandle returns no record and an error *)
(* with Op "GetFileType" and the given name as Path, and it does not call  *)
(* GetFileInformationByHandle; inside stat, the handle CreateFile opened   *)
(* is closed before stat returns.                                          *)
(***************************************************************************)
\* The positions in the log of p of a failed GetFileType.
FailedGetFileType(p) ==
    {i \in CallsOf(p, "GetFileType") : log[p][i].err # "nil"}

C16_GetFileTypeFailure ==
    \A p \in Procs :
        \A i \in FailedGetFileType(p) :
            /\ ret[p] = [info |-> NilInfo,
                         err |-> [Op |-> "GetFileType", Path |-> name[p],
                                  Err |-> log[p][i].err]]
            /\ ~Called(p, "GetFileInformationByHandle")
            /\ pc[p] \in {"CloseHandle", "done"}
            /\ InStat(p) /\ Done(p) =>
                   /\ \E c \in Opened(p), j \in Released(p) :
                          /\ log[p][c].api = "CreateFile" /\ c < i /\ i < j
                          /\ log[p][i].h = log[p][c].h
                          /\ log[p][j].api = "CloseHandle"
                          /\ log[p][j].h = log[p][c].h
                   /\ handles[log[p][i].h] = FreeSlot

\* Lstat has returned after a failed GetFileType on the handle it opened.
C16_Witness ==
    \E p \in Procs :
        /\ Done(p) /\ entry[p] = "Lstat"
        /\ FailedGetFileType(p) # {}
        /\ Called(p, "CloseHandle")

(***************************************************************************)
(* C17.  When the name, after fixLongPath, cannot be converted by          *)
(* UTF16PtrFromString, stat returns a PathError with the variant ("Stat"   *)
(* or "Lstat") as Op, the name as the caller gave it as Path and the       *)
(* error of the conversion as Err; it calls no API and opens no handle.    *)
(***************************************************************************)
C17_EncodingFailure ==
    \A p \in Procs :
        InStat(p) /\ ~IsEmptyName(name[p]) /\ ~Encodable(name[p]) =>
            /\ Done(p)
            /\ ret[p] = [info |-> NilInfo,
                         err |-> [Op |-> entry[p], Path |-> name[p],
                                  Err |-> "EINVAL"]]
            /\ log[p] = <<>>
            /\ active = {p} => handles = InitHandles

\* Lstat of a name that fixLongPath prefixes and that cannot be converted has
\* returned.
C17_Witness ==
    \E p \in Procs :
        /\ Done(p) /\ entry[p] = "Lstat"
        /\ ~Encodable(name[p])
        /\ fixLongPath(name[p]) # name[p]

(***************************************************************************)
(* C18.  No handle opened inside stat is used after it is closed, or       *)
(* closed twice.  The search handle is closed once, by the call that comes *)
(* right after the successful FindFirstFile and before the enrichment; the *)
(* handle of CreateFile is closed once, after the last query of statHandle *)
(* on it, as the last call before stat returns.  Nothing is closed when    *)
(* the open failed.                                                        *)
(***************************************************************************)
\* The positions in the log of p of the closes, successful or not.
Closes(p) == {j \in 1..Len(log[p]) : log[p][j].api \in CloseApis}

\* The positions after i at which the handle opened at i is closed.
ClosesOf(p, i) == {j \in Closes(p) : j > i /\ log[p][j].h = log[p][i].h}

C18_HandleLifetime ==
    \A p \in Procs :
        InStat(p) =>
            /\ \A i \in Opened(p) :
                   /\ Cardinality(ClosesOf(p, i)) <= 1
                   /\ Done(p) => Cardinality(ClosesOf(p, i)) = 1
                   /\ \A j \in ClosesOf(p, i) :
                          /\ log[p][j].err = "nil"
                          /\ \A k \in (j + 1)..Len(log[p]) :
                                 log[p][k].h # log[p][i].h
                   /\ log[p][i].api = "FindFirstFile" =>
                          /\ Len(log[p]) > i =>
                                 /\ log[p][i + 1].api = "FindClose"
                                 /\ log[p][i + 1].h = log[p][i].h
                          /\ pc[p] = "saveInfoFromPath" => ClosesOf(p, i) # {}
                   /\ log[p][i].api = "CreateFile" =>
                          \A j \in ClosesOf(p, i) :
                              /\ log[p][j].api = "CloseHandle"
                              /\ j = Len(log[p])
                              /\ Done(p)
                              /\ log[p][j - 1].api \in QueryApis
                              /\ log[p][j - 1].h = log[p][i].h
            /\ \A j \in Closes(p) :
                   \E i \in Opened(p) : j \in ClosesOf(p, i)
            /\ Cardinality(Closes(p)) <= Cardinality(Opened(p))

\* A call has closed the handle of CreateFile after both queries of
\* statHandle on it, and has returned.
C18_Witness ==
    \E p \in Procs :
        /\ Done(p) /\ InStat(p)
        /\ \E i \in Opened(p) :
               log[p][i].api = "CreateFile" /\ ClosesOf(p, i) # {}
        /\ Called(p, "GetFileInformationByHandle")

(***************************************************************************)
(* C19.  statHandle never closes or changes the handle it is given.  When  *)
(* File.Stat on a File that is not a directory returns, with a record or   *)
(* with any error, the handle of the File is open as before and the open   *)
(* handles are those that were open before the call.                       *)
(***************************************************************************)
\* The call of p is File.Stat on a File that is not nil and no directory.
OnOwnHandle(p) ==
    entry[p] = "File.Stat" /\ ~file[p].nil /\ ~file[p].isdir

C19_HandleLeftOpen ==
    \A p \in Procs :
        /\ OnOwnHandle(p) =>
               /\ \A i \in 1..Len(log[p]) :
                      log[p][i].api \notin OpenApis \cup CloseApis
               /\ handles[file[p].Sysfd] = InitHandles[file[p].Sysfd]
               /\ handles[file[p].Sysfd].type = "file"
               /\ active = {p} => handles = InitHandles
        /\ \A i \in 1..Len(log[p]) :
               log[p][i].api \in QueryApis /\ log[p][i].h \in Handles =>
                   \/ handles[log[p][i].h].type = "file"
                   \/ \E j \in Closes(p) : j > i /\ log[p][j].h = log[p][i].h

\* File.Stat on a regular File has returned the error of the full query of
\* its handle.
C19_Witness ==
    \E p \in Procs :
        /\ Done(p) /\ OnOwnHandle(p)
        /\ Failed(p)
        /\ Called(p, "GetFileInformationByHandle")

(***************************************************************************)
(* C20.  Every return of stat, statHandle and File.Stat gives either a     *)
(* record or an error, never both and never neither: with an error there   *)
(* is no record at all, with a record the error is nil.  The record of a   *)
(* successful full query has as its filetype the type GetFileType          *)
(* returned for the handle.                                                *)
(***************************************************************************)
\* The call of p returned what the full query of the handle gave.
FullQuerySucceeded(p) ==
    \E i \in CallsOf(p, "GetFileInformationByHandle") : log[p][i].err = "nil"

C20_RecordXorError ==
    \A p \in Procs :
        /\ pc[p] \in {"CloseHandle", "done"} =>
               /\ Failed(p) <=> ~Succeeded(p)
               /\ Failed(p) => ret[p].info = NilInfo
               /\ Succeeded(p) => ret[p].err = NilErr /\ ret[p].info # ZeroFileStat
        /\ Done(p) /\ FullQuerySucceeded(p) =>
               /\ Succeeded(p)
               /\ \E i \in CallsOf(p, "GetFileType") : log[p][i].err = "nil"
               /\ ret[p].info.filetype = ft[p]
               /\ ret[p].info.filetype = FILE_TYPE_DISK

\* Stat has returned the record of a full query; the call before it, a
\* File.Stat, had returned the record of a pipe.
C20_Witness ==
    \E p \in Procs :
        /\ Done(p) /\ entry[p] = "Stat" /\ FullQuerySucceeded(p)
        /\ prev[p].entry = "File.Stat" /\ prev[p].ret.info # NilInfo
        /\ IsPipeOrChar(prev[p].ret.info.filetype)

====
